---------------------------- MODULE Spec2Model ----------------------------
(***************************************************************************)
(* State-machine model of src/src/main.rs (otel-hello-world).              *)
(*                                                                         *)
(* The foreground task is main(): init_tracer()?, info_span!, the          *)
(* instrumented async block (three info! events around a one second       *)
(* sleep), global::shutdown_tracer_provider(), Ok(()).  The background     *)
(* task is the batch span processor that install_batch spawns on the       *)
(* Tokio runtime.                                                          *)
(*                                                                         *)
(* main.rs never installs a tracing subscriber: the tracer returned by     *)
(* init_tracer is bound to `_tracer` and not used again, so the tracing    *)
(* macros dispatch to the default no-op subscriber.  Spec starts in that   *)
(* state.  SpecBridged starts with a subscriber layer that forwards the    *)
(* macros to the tracer handle, as spec.md section 4.3 describes the       *)
(* envelope; it is used for the properties of the export pipeline, whose   *)
(* code (the OpenTelemetry SDK) is not part of src/.                       *)
(***************************************************************************)
EXTENDS Integers, Sequences, FiniteSets, TLC

VARIABLES
    env,                \* process environment: variable name -> <<>> (unset) or <<value>>
    netUp,              \* whether the collector is reachable during the run
    subscriber,         \* global tracing dispatcher: "none" or "otel"
    pc,                 \* program point of main()
    initResult,         \* result of init_tracer(): "none" (not run), "Ok", "Err"
    mainResult,         \* result of main(): "none" (running), "Ok", "Err"
    propagatorInstalls, \* calls of global::set_text_map_propagator
    providerInstalls,   \* global tracer providers installed by install_batch
    shutdownCalls,      \* calls of global::shutdown_tracer_provider
    detected,           \* the five detectors' resources
    exporterCfg,        \* what with_endpoint / with_timeout were given
    traceCfg,           \* what with_trace_config was given
    spanState,          \* root span handle: "none","created","entered","exited","closed"
    spanOpens,          \* spans created by info_span!
    spanCloses,         \* span handles dropped
    slept,              \* the one second sleep has completed
    emitted,            \* info! call sites executed, in program order
    building,           \* the span data the subscriber layer is recording (<<>> or <<span>>)
    enqueued,           \* every span ever handed to the batch processor
    queue,              \* batch buffer
    inflight,           \* batch handed to the exporter, not yet answered
    exported,           \* spans the collector acknowledged
    lost,               \* spans of batches whose export failed or timed out
    batchTask,          \* background task: "absent", "running", "stopped"
    ticks,              \* background task wake-ups so far
    lastFlush,          \* outcome of the shutdown flush ("none" before it)
    atShutdown          \* [opens, events] at the moment shutdown was called

vars == <<env, netUp, subscriber, pc, initResult, mainResult, propagatorInstalls,
          providerInstalls, shutdownCalls, detected, exporterCfg, traceCfg,
          spanState, spanOpens, spanCloses, slept, emitted, building, enqueued,
          queue, inflight, exported, lost, batchTask, ticks, lastFlush, atShutdown>>

fgVars == <<pc, initResult, mainResult, propagatorInstalls, providerInstalls,
            shutdownCalls, detected, exporterCfg, traceCfg, spanState, spanOpens,
            spanCloses, slept, emitted, building, lastFlush, atShutdown>>

---------------------------------------------------------------------------
(* Bounds and sample domains *)

\* wake-ups of the background batch task explored in one run
MaxTicks == 2

\* sample values an endpoint environment variable may hold
CollectorUrl == "http://collector:1234"
MalformedUrl == "http://bad host"

EndpointVar == "OTEL_EXPORTER_OTLP_ENDPOINT"
TracesEndpointVar == "OTEL_EXPORTER_OTLP_TRACES_ENDPOINT"

\* attribute keys a detector may produce
AttrKeys == {"service.name", "os.type"}

---------------------------------------------------------------------------
(* init_tracer *)

DefaultEndpoint == "http://localhost:4317"
TracesSuffix == "/v1/traces"
ExporterTimeoutSecs == 3

\* env::var(name): <<>> when unset, <<value>> when set
EnvVar(e, name) == e[name]

\* Result::unwrap_or_else(|_| default)
UnwrapOrElse(opt, default) == IF opt = <<>> THEN default ELSE opt[1]

\* format!("{}{}", env::var(TRACES_ENDPOINT).unwrap_or_else(default), "/v1/traces")
ResolveEndpoint(e) ==
    UnwrapOrElse(EnvVar(e, TracesEndpointVar), DefaultEndpoint) \o TracesSuffix

\* the exporter builder rejects an endpoint that is not a URI
ValidUri(url) == url # MalformedUrl /\ url # MalformedUrl \o TracesSuffix

InstallBatch(url) == IF ValidUri(url) THEN "Ok" ELSE "Err"

\* the fixed order in which init_tracer merges the detectors' resources
DetectorOrder == <<"os", "process", "sdk", "env", "telemetry">>

\* a detector's resource: the keys it found, each with that detector's value
Detect(d, keys) == [k \in keys |-> d]

\* Resource::merge: the union, the argument's value winning on a shared key
Merge(a, b) ==
    [k \in (DOMAIN a) \cup (DOMAIN b) |-> IF k \in DOMAIN b THEN b[k] ELSE a[k]]

MergedResourceEnvLast(os, process, sdk, envr, telemetry) ==
    Merge(Merge(Merge(Merge(os, process), sdk), telemetry), envr)

\* os.merge(&process).merge(&sdk).merge(&env).merge(&telemetry)
MergedResource(os, process, sdk, envr, telemetry) ==
    Merge(Merge(Merge(Merge(os, process), sdk), envr), telemetry)

---------------------------------------------------------------------------
(* main: program order *)

MainOrderShutdownFirst ==
    <<"shutdown", "span", "enter", "info1", "info2", "sleep", "wake", "info3",
      "finish", "return", "done">>

MainOrderNoShutdown ==
    <<"span", "enter", "info1", "info2", "sleep", "wake", "info3", "finish",
      "return", "done">>

\* the statements of main after `init_tracer()?`, in the order main runs them
MainOrder ==
    <<"span", "enter", "info1", "info2", "sleep", "wake", "info3", "finish",
      "shutdown", "return", "done">>

TryAlwaysContinues(r) == Head(MainOrder)

\* the `?` on init_tracer(): an Err leaves main at once
Try(r) == IF r = "Err" THEN "done" ELSE Head(MainOrder)

\* the statement main executes after the one at p
MainNext(p) ==
    LET i == CHOOSE j \in 1..Len(MainOrder) : MainOrder[j] = p
    IN  MainOrder[i + 1]

MainReturnPropagates(flush) == IF flush = "ok" THEN "Ok" ELSE "Err"

\* shutdown_tracer_provider() returns (); main ends with Ok(()) whatever the flush did
MainReturn(flush) == "Ok"

\* the messages of the three info! call sites of the instrumented block
InfoMessage(p) ==
    CASE p = "info1" -> "Starting hello world application"
      [] p = "info2" -> "Hello, OpenTelemetry!"
      [] p = "info3" -> "Application completed successfully"

\* the fields of info_span!("hello_world_operation", ...)
RootSpanName == "hello_world_operation"
RootSpanAttrs ==
    [k \in {"service.name", "service.version", "security.context"} |->
        CASE k = "service.name"     -> "hello-world-demo"
          [] k = "service.version"  -> "CARGO_PKG_VERSION"
          [] k = "security.context" -> "demo_context"]

DropLeaks(s) == s

\* the Instrumented future is consumed by .await: its span handle is dropped
DropSpan(s) == "closed"

---------------------------------------------------------------------------
(* The subscriber layer and the batch span processor *)

\* a new span as the layer records it; nothing without a subscriber
OnNewSpan(sub, name, attrs, res) ==
    IF sub = "otel"
    THEN <<[name |-> name, attrs |-> attrs, events |-> <<>>, resource |-> res]>>
    ELSE <<>>

RecordEventFirst(evs, e) == <<e>> \o evs

\* an event is added after the events the span already holds
RecordEvent(evs, e) == Append(evs, e)

\* an event emitted while the span is entered is attributed to that span
OnEvent(sub, state, b, e) ==
    IF sub = "otel" /\ state = "entered" /\ b # <<>>
    THEN <<[b[1] EXCEPT !.events = RecordEvent(@, e)]>>
    ELSE b

\* outcomes of one export request
Outcomes(up) == IF up THEN {"ok"} ELSE {"ok", "failed", "timeout"}

---------------------------------------------------------------------------
(* Initial states *)

DetectorSet == {DetectorOrder[i] : i \in 1..Len(DetectorOrder)}

\* the environment main may be started in
Environments ==
    {e \in [{EndpointVar, TracesEndpointVar} -> {<<>>, <<CollectorUrl>>, <<MalformedUrl>>}] :
        e[EndpointVar] # <<MalformedUrl>>}

InitWith(sub) ==
    /\ env \in Environments
    /\ netUp \in BOOLEAN
    /\ subscriber = sub
    /\ pc = "init"
    /\ initResult = "none"
    /\ mainResult = "none"
    /\ propagatorInstalls = 0
    /\ providerInstalls = 0
    /\ shutdownCalls = 0
    /\ detected = [d \in DetectorSet |-> <<>>]
    /\ exporterCfg = [endpoint |-> "", timeout |-> 0]
    /\ traceCfg = [resource |-> <<>>, sampler |-> "none"]
    /\ spanState = "none"
    /\ spanOpens = 0
    /\ spanCloses = 0
    /\ slept = FALSE
    /\ emitted = <<>>
    /\ building = <<>>
    /\ enqueued = <<>>
    /\ queue = <<>>
    /\ inflight = <<>>
    /\ exported = <<>>
    /\ lost = <<>>
    /\ batchTask = "absent"
    /\ ticks = 0
    /\ lastFlush = "none"
    /\ atShutdown = [opens |-> 0, events |-> 0]

\* main.rs sets no global subscriber
Init == InitWith("none")

\* the same program with a subscriber layer bound to the tracer handle
InitBridged == InitWith("otel")

---------------------------------------------------------------------------
(* Foreground: main *)

bgVars == <<enqueued, queue, inflight, exported, lost, batchTask, ticks>>
inVars == <<env, netUp, subscriber>>

\* let _tracer = init_tracer()  (the call; the `?` is TryStep)
InitTracer ==
    /\ pc = "init"
    /\ propagatorInstalls' = propagatorInstalls + 1
    /\ \E ks \in [DetectorSet -> SUBSET AttrKeys] :
          detected' = [d \in DetectorSet |-> Detect(d, ks[d])]
    /\ LET url == ResolveEndpoint(env)
           r   == InstallBatch(url)
       IN  /\ exporterCfg' = [endpoint |-> url, timeout |-> ExporterTimeoutSecs]
           /\ traceCfg' =
                [resource |-> MergedResource(detected'["os"], detected'["process"],
                                             detected'["sdk"], detected'["env"],
                                             detected'["telemetry"]),
                 sampler  |-> "AlwaysOn"]
           /\ initResult' = r
           /\ providerInstalls' = IF r = "Ok" THEN providerInstalls + 1 ELSE providerInstalls
           /\ batchTask' = IF r = "Ok" THEN "running" ELSE batchTask
    /\ pc' = "try"
    /\ UNCHANGED <<inVars, mainResult, shutdownCalls, spanState, spanOpens, spanCloses,
                   slept, emitted, building, enqueued, queue, inflight, exported, lost,
                   ticks, lastFlush, atShutdown>>

TryStep ==
    /\ pc = "try"
    /\ pc' = Try(initResult)
    /\ mainResult' = IF pc' = "done" THEN "Err" ELSE mainResult
    /\ UNCHANGED <<inVars, bgVars, initResult, propagatorInstalls, providerInstalls,
                   shutdownCalls, detected, exporterCfg, traceCfg, spanState, spanOpens,
                   spanCloses, slept, emitted, building, lastFlush, atShutdown>>

\* let root_span = info_span!(...)
CreateSpan ==
    /\ pc = "span"
    /\ spanState' = "created"
    /\ spanOpens' = spanOpens + 1
    /\ building' = OnNewSpan(subscriber, RootSpanName, RootSpanAttrs, traceCfg.resource)
    /\ pc' = MainNext(pc)
    /\ UNCHANGED <<inVars, bgVars, initResult, mainResult, propagatorInstalls,
                   providerInstalls, shutdownCalls, detected, exporterCfg, traceCfg,
                   spanCloses, slept, emitted, lastFlush, atShutdown>>

\* first poll of the instrumented future: the span is entered
EnterSpan ==
    /\ pc = "enter"
    /\ spanState' = "entered"
    /\ pc' = MainNext(pc)
    /\ UNCHANGED <<inVars, bgVars, initResult, mainResult, propagatorInstalls,
                   providerInstalls, shutdownCalls, detected, exporterCfg, traceCfg,
                   spanOpens, spanCloses, slept, emitted, building, lastFlush, atShutdown>>

\* one info!(...) call site
Info ==
    /\ pc \in {"info1", "info2", "info3"}
    /\ emitted' = Append(emitted, [msg |-> InfoMessage(pc), afterSleep |-> slept])
    /\ building' = OnEvent(subscriber, spanState, building, InfoMessage(pc))
    /\ pc' = MainNext(pc)
    /\ UNCHANGED <<inVars, bgVars, initResult, mainResult, propagatorInstalls,
                   providerInstalls, shutdownCalls, detected, exporterCfg, traceCfg,
                   spanState, spanOpens, spanCloses, slept, lastFlush, atShutdown>>

\* tokio::time::sleep(1s).await: the future is pending, the span is exited
SleepAwait ==
    /\ pc = "sleep"
    /\ spanState' = "exited"
    /\ pc' = MainNext(pc)
    /\ UNCHANGED <<inVars, bgVars, initResult, mainResult, propagatorInstalls,
                   providerInstalls, shutdownCalls, detected, exporterCfg, traceCfg,
                   spanOpens, spanCloses, slept, emitted, building, lastFlush, atShutdown>>

\* the timer fires: the future is polled again, the span is entered again
Wake ==
    /\ pc = "wake"
    /\ slept' = TRUE
    /\ spanState' = "entered"
    /\ pc' = MainNext(pc)
    /\ UNCHANGED <<inVars, bgVars, initResult, mainResult, propagatorInstalls,
                   providerInstalls, shutdownCalls, detected, exporterCfg, traceCfg,
                   spanOpens, spanCloses, emitted, building, lastFlush, atShutdown>>

\* the block is ready: .instrument(root_span).await ends and drops the span
Finish ==
    /\ pc = "finish"
    /\ spanState' = DropSpan(spanState)
    /\ spanCloses' = IF spanState' = "closed" THEN spanCloses + 1 ELSE spanCloses
    /\ IF spanState' = "closed" /\ building # <<>>
       THEN /\ building' = <<>>
            /\ IF batchTask = "running"
               THEN /\ queue' = queue \o building
                    /\ enqueued' = enqueued \o building
                    /\ lost' = lost
               ELSE /\ lost' = lost \o building
                    /\ UNCHANGED <<queue, enqueued>>
       ELSE UNCHANGED <<building, queue, enqueued, lost>>
    /\ pc' = MainNext(pc)
    /\ UNCHANGED <<inVars, inflight, exported, batchTask, ticks, initResult, mainResult,
                   propagatorInstalls, providerInstalls, shutdownCalls, detected,
                   exporterCfg, traceCfg, spanOpens, slept, emitted, lastFlush, atShutdown>>

\* global::shutdown_tracer_provider(): flush what is buffered, stop the batch task
Shutdown ==
    /\ pc = "shutdown"
    /\ shutdownCalls' = shutdownCalls + 1
    /\ atShutdown' = [opens |-> spanOpens, events |-> Len(emitted)]
    /\ \E o \in Outcomes(netUp) :
          LET pending == inflight \o queue
          IN  IF batchTask = "running"
              THEN /\ exported' = IF o = "ok" THEN exported \o pending ELSE exported
                   /\ lost' = IF o = "ok" THEN lost ELSE lost \o pending
                   /\ queue' = <<>>
                   /\ inflight' = <<>>
                   /\ lastFlush' = IF pending = <<>> THEN "ok" ELSE o
                   /\ batchTask' = "stopped"
              ELSE UNCHANGED <<exported, lost, queue, inflight, lastFlush, batchTask>>
    /\ pc' = MainNext(pc)
    /\ UNCHANGED <<inVars, enqueued, ticks, initResult, mainResult, propagatorInstalls,
                   providerInstalls, detected, exporterCfg, traceCfg, spanState, spanOpens,
                   spanCloses, slept, emitted, building>>

\* Ok(())
Return ==
    /\ pc = "return"
    /\ mainResult' = MainReturn(lastFlush)
    /\ pc' = MainNext(pc)
    /\ UNCHANGED <<inVars, bgVars, initResult, propagatorInstalls, providerInstalls,
                   shutdownCalls, detected, exporterCfg, traceCfg, spanState, spanOpens,
                   spanCloses, slept, emitted, building, lastFlush, atShutdown>>

Foreground ==
    \/ InitTracer
    \/ TryStep
    \/ CreateSpan
    \/ EnterSpan
    \/ Info
    \/ SleepAwait
    \/ Wake
    \/ Finish
    \/ Shutdown
    \/ Return

---------------------------------------------------------------------------
(* Background: the batch span processor's task *)

\* one wake-up: hand the buffer to the exporter, or take the exporter's answer
BatchTask ==
    /\ batchTask = "running"
    /\ ticks < MaxTicks
    /\ ticks' = ticks + 1
    /\ \E o \in Outcomes(netUp) :
          IF inflight = <<>>
          THEN /\ inflight' = queue
               /\ queue' = <<>>
               /\ UNCHANGED <<exported, lost>>
          ELSE /\ inflight' = <<>>
               /\ exported' = IF o = "ok" THEN exported \o inflight ELSE exported
               /\ lost' = IF o = "ok" THEN lost ELSE lost \o inflight
               /\ UNCHANGED queue
    /\ UNCHANGED <<inVars, fgVars, enqueued, batchTask>>

Next == Foreground \/ BatchTask

Spec == Init /\ [][Next]_vars

SpecBridged == InitBridged /\ [][Next]_vars

---------------------------------------------------------------------------
(* Properties *)

Range(q) == {q[i] : i \in 1..Len(q)}

\* the detectors that produced key k
Producers(k) == {d \in DetectorSet : k \in DOMAIN detected[d]}

\* the last detector, in merge order, that produced key k
LatestProducer(k) ==
    LET i == CHOOSE j \in 1..Len(DetectorOrder) :
                /\ DetectorOrder[j] \in Producers(k)
                /\ \A m \in (j + 1)..Len(DetectorOrder) : DetectorOrder[m] \notin Producers(k)
    IN  DetectorOrder[i]

DetectedKeys == UNION {DOMAIN detected[d] : d \in DetectorSet}

\* C1: the resource given to the trace configuration holds every key some
\* detector produced, each with the value of the last detector, in the order
\* OS, process, SDK, environment, telemetry, that produced it.
C1_MergeLastWriteWins ==
    initResult # "none" =>
        /\ DOMAIN traceCfg.resource = DetectedKeys
        /\ \A k \in DetectedKeys :
              traceCfg.resource[k] = detected[LatestProducer(k)][k]

C1_Witness ==
    /\ initResult = "Ok"
    /\ \E k \in AttrKeys : {"sdk", "env", "telemetry"} \subseteq Producers(k)
    /\ \E k \in AttrKeys : Producers(k) = {"os", "env"}

\* C2: with OTEL_EXPORTER_OTLP_ENDPOINT unset, the endpoint given to the
\* exporter is exactly http://localhost:4317.
C2_UnsetEndpointIsDefault ==
    (initResult # "none" /\ env[EndpointVar] = <<>>) =>
        exporterCfg.endpoint = DefaultEndpoint

\* C3: with OTEL_EXPORTER_OTLP_ENDPOINT=http://collector:1234 and no other
\* endpoint variable set, the endpoint given to the exporter is
\* http://collector:1234/v1/traces.
C3_BaseEndpointPlusSuffix ==
    (/\ initResult # "none"
     /\ env[EndpointVar] = <<CollectorUrl>>
     /\ env[TracesEndpointVar] = <<>>) =>
        exporterCfg.endpoint = CollectorUrl \o TracesSuffix

\* C4: when init_tracer returns an error, main ends at once with an error:
\* no span is opened, no event recorded, nothing enqueued or exported, the
\* sleep is never reached and shutdown is never called.
C4_InitErrorExitsAtOnce ==
    initResult = "Err" =>
        /\ pc \in {"try", "done"}
        /\ pc = "done" => mainResult = "Err"
        /\ mainResult # "Ok"
        /\ spanOpens = 0
        /\ spanState = "none"
        /\ emitted = <<>>
        /\ building = <<>>
        /\ enqueued = <<>>
        /\ queue = <<>>
        /\ exported = <<>>
        /\ ~slept

C4_Witness == initResult = "Err" /\ pc = "done" /\ mainResult = "Err"

\* C5: when init_tracer succeeds, the propagator and the tracer provider are
\* installed exactly once and before the root span is created or any event is
\* emitted; shutdown is called exactly once, only after the root span has
\* closed, and no span is created and no event emitted at or after it.
C5_GlobalLifecycleOrder ==
    /\ propagatorInstalls <= 1
    /\ providerInstalls <= 1
    /\ shutdownCalls <= 1
    /\ initResult = "Ok" =>
          /\ (spanOpens > 0 \/ emitted # <<>>) =>
                (propagatorInstalls = 1 /\ providerInstalls = 1)
          /\ shutdownCalls = 1 =>
                /\ spanState = "closed"
                /\ spanCloses = spanOpens
                /\ spanOpens = atShutdown.opens
                /\ Len(emitted) = atShutdown.events
          /\ pc = "done" =>
                (shutdownCalls = 1 /\ propagatorInstalls = 1 /\ providerInstalls = 1)

C5_Witness ==
    /\ pc = "done"
    /\ shutdownCalls = 1
    /\ spanOpens = 1
    /\ spanCloses = 1
    /\ Len(emitted) = 3

C7_OneSpanTwoEventsExported ==
    (/\ pc = "done"
     /\ mainResult = "Ok"
     /\ netUp
     /\ env[TracesEndpointVar] = <<>>) =>
        /\ Len(exported) = 1
        /\ Len(exported[1].events) = 2
        /\ exported[1].resource = traceCfg.resource
        /\ exported[1].attrs["service.name"] = "hello-world-demo"
        /\ "service.version" \in DOMAIN exported[1].attrs

\* C8: the root span is never closed twice, and once the instrumented block
\* is over (and in every terminal state of main after shutdown) the span that
\* was opened is closed.
C8_RootSpanClosesOnce ==
    /\ spanCloses <= 1
    /\ spanCloses <= spanOpens
    /\ spanState = "closed" <=> spanCloses = 1
    /\ (initResult = "Ok" /\ pc \in {"shutdown", "return", "done"}) =>
          (spanOpens = 1 /\ spanCloses = 1)

C8_Witness == pc = "done" /\ mainResult = "Ok" /\ spanOpens = 1 /\ spanCloses = 1

=============================================================================
